---- MODULE Spec2Model ----
(***************************************************************************)
(* Model of the fee-estimate analysis tool (src/util.py, src/main.py).     *)
(*                                                                         *)
(* Three specifications share the variables below:                         *)
(*   SpecConv  sats_per_kb_to_sats_per_byte applied to one input           *)
(*   SpecLoad  read_data_from_file: the fees load, then the blocks load    *)
(*   Spec      get_summary(data): maximum, sanity check, header,           *)
(*             calculate_percentages (stepped per estimate and per         *)
(*             scanned height), percentages, report                        *)
(*                                                                         *)
(* Python values are modelled as follows.                                  *)
(*   - numbers are integers; a float that the code only ever divides by    *)
(*     1000 and truncates is kept as the integer it came from;             *)
(*   - a percentage (a float in the code) is an exact fraction <<n, d>>;   *)
(*   - a list is [type |-> "list", items |-> sequence], a dict is          *)
(*     [type |-> "dict", keys |-> insertion order, items |-> function];    *)
(*   - an exception is its class name, "" meaning none was raised.         *)
(***************************************************************************)
EXTENDS Integers, Sequences, FiniteSets, TLC

VARIABLES
    pc,                    \* position in the program
    exc,                   \* the uncaught exception that ended the run, if any
    out,                   \* lines printed so far (diagnostics and report)
    rate_in, rate_out,     \* SpecConv: argument and result of the converter
    fees_src, blocks_src,  \* SpecLoad: the two input sources
    data,                  \* <<fees_data, blocks_data>> as read_data_from_file returns it
    estimates_data,        \* get_summary: the estimates list (trimmed in place)
    maximum_block_height,  \* get_summary: max of the block heights
    idx,                   \* calculate_percentages: index of the estimate being judged
    curr_height, max_height,  \* calculate_percentages: scan position and exclusive end
    cons_res, econs_res,   \* flags [underpaid, overpaid, within the range] of the estimate
    visited,               \* history: heights whose block the current scan has compared
    cons_result, econs_result  \* per conf_target buckets of both modes

vars == <<pc, exc, out, rate_in, rate_out, fees_src, blocks_src, data,
          estimates_data, maximum_block_height, idx, curr_height, max_height,
          cons_res, econs_res, visited, cons_result, econs_result>>

convVars == <<rate_in, rate_out>>
loadVars == <<fees_src, blocks_src>>
scanVars == <<idx, curr_height, max_height, cons_res, econs_res, visited>>
resultVars == <<cons_result, econs_result>>

----------------------------------------------------------------------------
(* Python values *)

NoExc == ""
NoError == [at |-> "", type |-> NoExc]
Raised(at, type) == [at |-> at, type |-> type]

PyList(s) == [type |-> "list", items |-> s]
PyDict(keys, f) == [type |-> "dict", keys |-> keys, items |-> f]
EmptyFun == [x \in {} |-> 0]
EmptyDict == PyDict(<<>>, EmptyFun)

\* JSON values a record field can hold
Num(v) == [t |-> "num", v |-> v]
NumStr(v) == [t |-> "numstr", v |-> v]
BadStr == [t |-> "badstr", v |-> 0]
Null == [t |-> "null", v |-> 0]

\* int() of a float truncates toward zero
TruncDiv(a, b) == IF a >= 0 THEN a \div b ELSE -((-a) \div b)

\* float(x): the exception it raises ("" if none)
FloatExc(x) ==
    CASE x.t = "badstr" -> "ValueError"
      [] x.t = "null" -> "TypeError"
      [] OTHER -> NoExc

----------------------------------------------------------------------------
(* Unit converter *)

sats_per_kb_to_sats_per_byte_floor(sats_per_kb) == sats_per_kb \div 1000

sats_per_kb_to_sats_per_byte(sats_per_kb) == TruncDiv(sats_per_kb, 1000)

----------------------------------------------------------------------------
(* Data loader *)

\* record[key] followed by float(...): the exception raised, "" if none
FieldExc(record, key) ==
    IF key \notin DOMAIN record THEN "KeyError" ELSE FloatExc(record[key])

\* The first exception raised when the fields are evaluated in the order keys
RECURSIVE FirstExc(_, _)
FirstExc(record, keys) ==
    IF keys = <<>> THEN NoExc
    ELSE IF FieldExc(record, Head(keys)) # NoExc THEN FieldExc(record, Head(keys))
    ELSE FirstExc(record, Tail(keys))

FeeFields == <<"conf_target", "block_height", "conservative_fee_rate", "economic_fee_rate">>
BlockFields == <<"block_height", "block_height", "p_5", "p_50">>

FeeEstimate(estimate) ==
    [conf_target |-> estimate["conf_target"].v,
     block_height |-> estimate["block_height"].v,
     conservative_fee_rate |-> sats_per_kb_to_sats_per_byte(estimate["conservative_fee_rate"].v),
     economic_fee_rate |-> sats_per_kb_to_sats_per_byte(estimate["economic_fee_rate"].v)]

\* read_fees: the list comprehension; the first record that raises ends it
RECURSIVE read_fees_from(_, _)
read_fees_from(estimates_dict, acc) ==
    IF estimates_dict = <<>> THEN [exc |-> NoExc, val |-> PyList(acc), printed |-> <<>>]
    ELSE LET e == FirstExc(Head(estimates_dict), FeeFields) IN
         IF e # NoExc THEN [exc |-> e, val |-> PyList(<<>>), printed |-> <<>>]
         ELSE read_fees_from(Tail(estimates_dict), Append(acc, FeeEstimate(Head(estimates_dict))))

read_fees(estimates_dict) == read_fees_from(estimates_dict, <<>>)

FilteredBlock(block) ==
    [conf_height |-> block["block_height"].v,
     p_5 |-> sats_per_kb_to_sats_per_byte(block["p_5"].v),
     p_50 |-> sats_per_kb_to_sats_per_byte(block["p_50"].v)]

\* filtered_blocks[height] = filtered_block on a dict that keeps insertion order
DictSet(d, k, v) ==
    PyDict(IF k \in DOMAIN d.items THEN d.keys ELSE Append(d.keys, k),
           [x \in DOMAIN d.items \cup {k} |-> IF x = k THEN v ELSE d.items[x]])

BlockExcCaught(e) == e \in {"ValueError", "KeyError"}

\* read_blocks: a record raising ValueError or KeyError is reported and skipped
RECURSIVE read_blocks_from(_, _, _)
read_blocks_from(blocks_dict, filtered_blocks, printed) ==
    IF blocks_dict = <<>> THEN [exc |-> NoExc, val |-> filtered_blocks, printed |-> printed]
    ELSE LET block == Head(blocks_dict)
             e == FirstExc(block, BlockFields)
         IN  IF e = NoExc
             THEN read_blocks_from(Tail(blocks_dict),
                      DictSet(filtered_blocks, block["block_height"].v, FilteredBlock(block)),
                      printed)
             ELSE IF BlockExcCaught(e)
             THEN read_blocks_from(Tail(blocks_dict), filtered_blocks,
                      Append(printed, <<"Error processing block data", e>>))
             ELSE [exc |-> e, val |-> filtered_blocks, printed |-> printed]

read_blocks(blocks_dict) == read_blocks_from(blocks_dict, EmptyDict, <<>>)

FileExcCaught(e) == e \in {"IOError", "ValueError"}

\* read_function(data), the function being named by a string
Call(read_function, json_data) ==
    IF read_function = "read_fees" THEN read_fees(json_data) ELSE read_blocks(json_data)

\* A source is [kind |-> "none" | "ioerror" | "badjson" | "json", records |-> ...].
\* open() raises IOError, json.load raises ValueError, then read_function runs.
read_and_process_file(src, read_function) ==
    LET r == CASE src.kind = "ioerror" -> [exc |-> "IOError", val |-> PyList(<<>>), printed |-> <<>>]
               [] src.kind = "badjson" -> [exc |-> "ValueError", val |-> PyList(<<>>), printed |-> <<>>]
               [] OTHER -> Call(read_function, src.records)
    IN  IF r.exc = NoExc THEN r
        ELSE IF FileExcCaught(r.exc)
        THEN [exc |-> NoExc, val |-> PyList(<<>>),
              printed |-> Append(r.printed, <<"Error reading or processing file", r.exc>>)]
        ELSE [exc |-> r.exc, val |-> PyList(<<>>), printed |-> r.printed]

\* read_data_from_file, first conditional expression: the fees load
load_fees(src) ==
    IF src.kind = "none" THEN [exc |-> NoExc, val |-> PyList(<<>>), printed |-> <<>>]
    ELSE read_and_process_file(src, "read_fees")

\* read_data_from_file, second conditional expression: the blocks load
load_blocks(src) ==
    IF src.kind = "none" THEN [exc |-> NoExc, val |-> PyList(<<>>), printed |-> <<>>]
    ELSE read_and_process_file(src, "read_blocks")

----------------------------------------------------------------------------
(* Range trimmer *)

TrimWindow == 1008

RECURSIVE sanity_check_data_inclusive(_, _)
sanity_check_data_inclusive(estimates, maximum) ==
    IF Len(estimates) > 0 /\ maximum - TrimWindow <= estimates[Len(estimates)].block_height
    THEN sanity_check_data_inclusive(SubSeq(estimates, 1, Len(estimates) - 1), maximum)
    ELSE estimates

\* sanity_check_data: pop from the tail while minimum < estimates[-1]["block_height"]
RECURSIVE sanity_check_data(_, _)
sanity_check_data(estimates, maximum) ==
    IF Len(estimates) > 0 /\ maximum - TrimWindow < estimates[Len(estimates)].block_height
    THEN sanity_check_data(SubSeq(estimates, 1, Len(estimates) - 1), maximum)
    ELSE estimates

----------------------------------------------------------------------------
(* Classifier / aggregator *)

Categories == <<"underpaid", "overpaid", "within the range">>
PercKey(key) ==
    CASE key = "underpaid" -> "underpaid perc"
      [] key = "overpaid" -> "overpaid perc"
      [] OTHER -> "within the range perc"

NoFlags == <<FALSE, FALSE, FALSE>>   \* res[0], res[1], res[2] of the code are [1], [2], [3]

initialize_results == [k \in {"underpaid", "overpaid", "within the range"} |-> 0]

\* "if target not in result: result[target] = initialize_results()"
EnsureBucket(result_dict, target) ==
    IF target \in DOMAIN result_dict.items THEN result_dict
    ELSE DictSet(result_dict, target, initialize_results)

ResultKey_underpaid_first(res) ==
    IF res[1] THEN "underpaid" ELSE IF res[2] THEN "overpaid" ELSE "within the range"

\* the branch update_results takes
ResultKey(res) ==
    IF res[2] THEN "overpaid" ELSE IF res[3] THEN "within the range" ELSE "underpaid"

update_results(res, target, result_dict) ==
    [result_dict EXCEPT !.items[target][ResultKey(res)] = @ + 1]

WindowEnd_inclusive(estimate) == estimate.block_height + estimate.conf_target + 1

\* max_height = curr_height + conf_target
WindowEnd(estimate) == estimate.block_height + estimate.conf_target

ScanContinues_inclusive(curr, max) == curr <= max

\* while curr_height < max_height
ScanContinues(curr, max) == curr < max

VisitFlags_partition(res, fee_rate, block) ==
    <<res[1] \/ fee_rate < block.p_5,
      res[2] \/ fee_rate > block.p_50,
      res[3] \/ (fee_rate >= block.p_5 /\ ~(fee_rate > block.p_50))>>

\* the two if statements applied to one mode's fee rate at one block
VisitFlags(res, fee_rate, block) ==
    <<res[1] \/ fee_rate < block.p_5,
      res[2] \/ fee_rate > block.p_50,
      res[3] \/ ~(fee_rate > block.p_50)>>

Divisor == 12

Total_plain(estimates) == <<Len(estimates), 1>>

\* total = len(estimates) / 12, as a fraction
Total(estimates) == <<Len(estimates), Divisor>>

\* (count / total) * 100 as a fraction; count is an integer
Percentage(count, total) == <<count * total[2] * 100, total[1]>>

calculate_percentage(results, total) ==
    [results EXCEPT !.items =
        [target \in DOMAIN results.items |->
            [k \in {"underpaid", "overpaid", "within the range",
                    "underpaid perc", "overpaid perc", "within the range perc"} |->
                CASE k = "underpaid perc" -> Percentage(results.items[target]["underpaid"], total)
                  [] k = "overpaid perc" -> Percentage(results.items[target]["overpaid"], total)
                  [] k = "within the range perc" ->
                        Percentage(results.items[target]["within the range"], total)
                  [] OTHER -> results.items[target][k]]]]

----------------------------------------------------------------------------
(* Report printer *)

\* "{percentage:.2f}": the fraction in hundredths, rounded to nearest (ties to even)
Format2f(p) ==
    LET q == (p[1] * 100) \div p[2]
        r == (p[1] * 100) % p[2]
    IN  IF 2 * r > p[2] \/ (2 * r = p[2] /\ q % 2 = 1) THEN q + 1 ELSE q

BucketLines(target, result, mode) ==
    <<<<"Conf target", target>>>>
    \o [i \in 1..3 |-> <<"estimates", result[Categories[i]], Categories[i],
                         Format2f(result[PercKey(Categories[i])]), mode>>]
    \o <<<<"separator">>>>

RECURSIVE print_summary_from(_, _, _)
print_summary_from(keys, results, mode) ==
    IF keys = <<>> THEN <<>>
    ELSE BucketLines(Head(keys), results.items[Head(keys)], mode)
         \o print_summary_from(Tail(keys), results, mode)

\* print_summary: the buckets in insertion order
print_summary(results, mode) == print_summary_from(results.keys, results, mode)

----------------------------------------------------------------------------
(* Helpers for the input sets *)

MaxOf(S) == CHOOSE x \in S : \A y \in S : y <= x
MinOf(S) == CHOOSE x \in S : \A y \in S : x <= y

SeqsUpTo(S, n) == UNION {[1..k -> S] : k \in 0..n}

RECURSIVE Ascending(_)
Ascending(S) == IF S = {} THEN <<>> ELSE <<MinOf(S)>> \o Ascending(S \ {MinOf(S)})

\* a dict whose keys were inserted in ascending order
DictOf(f) == PyDict(Ascending(DOMAIN f), f)

Repeat(x, n) == [i \in 1..n |-> x]

Drop(record, key) == [k \in DOMAIN record \ {key} |-> record[k]]
Alter(record, key, v) == [record EXCEPT ![key] = v]

NoSource == [kind |-> "none", records |-> <<>>]
JsonSource(records) == [kind |-> "json", records |-> records]

IdleConv == rate_in = 0 /\ rate_out = 0
IdleLoad == fees_src = NoSource /\ blocks_src = NoSource
IdleSummary ==
    /\ estimates_data = <<>>
    /\ maximum_block_height = 0
    /\ idx = 0 /\ curr_height = 0 /\ max_height = 0
    /\ cons_res = NoFlags /\ econs_res = NoFlags /\ visited = {}
    /\ cons_result = EmptyDict /\ econs_result = EmptyDict

----------------------------------------------------------------------------
(* SpecConv: the unit converter on one integer input *)

MaxRate == 5000

InitConv ==
    /\ pc = "convert" /\ exc = NoError /\ out = <<>>
    /\ rate_in \in (-MaxRate)..MaxRate
    /\ rate_out = 0
    /\ data = <<PyList(<<>>), PyList(<<>>)>>
    /\ IdleLoad /\ IdleSummary

Convert ==
    /\ pc = "convert"
    /\ rate_out' = sats_per_kb_to_sats_per_byte(rate_in)
    /\ pc' = "converted"
    /\ UNCHANGED <<exc, out, rate_in, loadVars, data, estimates_data,
                   maximum_block_height, scanVars, resultVars>>

NextConv == Convert

SpecConv == InitConv /\ [][NextConv]_vars

----------------------------------------------------------------------------
(* SpecLoad: read_data_from_file *)

MaxFeeRecords == 2
MaxBlockRecords == 3

GoodFee ==
    [conf_target |-> Num(2), block_height |-> Num(100),
     conservative_fee_rate |-> Num(10999), economic_fee_rate |-> NumStr(25000)]
GoodFee2 ==
    [conf_target |-> NumStr(3), block_height |-> Num(101),
     conservative_fee_rate |-> Num(999), economic_fee_rate |-> Num(0)]

FeeRecords ==
    {GoodFee, GoodFee2}
    \cup {Alter(GoodFee, f, v) : f \in DOMAIN GoodFee, v \in {BadStr, Null}}
    \cup {Drop(GoodFee, f) : f \in DOMAIN GoodFee}
    \cup {Drop(Alter(GoodFee, "conf_target", BadStr), "block_height")}

RawBlock(h, p5, p50) == [block_height |-> Num(h), p_5 |-> Num(p5), p_50 |-> NumStr(p50)]

GoodBlocks == {RawBlock(101, 5000, 20000), RawBlock(102, 12000, 20999), RawBlock(101, 6999, 8000)}

BlockRecords ==
    GoodBlocks
    \cup {Alter(RawBlock(103, 5000, 20000), f, v) : f \in {"block_height", "p_5", "p_50"},
                                                    v \in {BadStr, Null}}
    \cup {Drop(RawBlock(103, 5000, 20000), f) : f \in {"block_height", "p_5", "p_50"}}

FeesSources ==
    {NoSource, [kind |-> "ioerror", records |-> <<>>], [kind |-> "badjson", records |-> <<>>]}
    \cup {JsonSource(r) : r \in SeqsUpTo(FeeRecords, MaxFeeRecords)}

BlocksSources ==
    {NoSource, [kind |-> "ioerror", records |-> <<>>], [kind |-> "badjson", records |-> <<>>]}
    \cup {JsonSource(r) : r \in SeqsUpTo(BlockRecords, MaxBlockRecords)}

InitLoad ==
    /\ pc = "read_fees" /\ exc = NoError /\ out = <<>>
    /\ \/ fees_src \in FeesSources /\ blocks_src = JsonSource(<<RawBlock(101, 5000, 20000)>>)
       \/ fees_src = JsonSource(<<GoodFee>>) /\ blocks_src \in BlocksSources
    /\ data = <<PyList(<<>>), PyList(<<>>)>>
    /\ IdleConv /\ IdleSummary

\* fees_data = read_and_process_file(fees_file_path, read_fees) if fees_file_path else []
ReadFees ==
    /\ pc = "read_fees"
    /\ LET r == load_fees(fees_src) IN
        /\ out' = out \o r.printed
        /\ IF r.exc = NoExc
           THEN /\ data' = <<r.val, data[2]>>
                /\ pc' = "read_blocks"
                /\ exc' = exc
           ELSE /\ pc' = "fatal"
                /\ exc' = Raised("read_fees", r.exc)
                /\ data' = data
    /\ UNCHANGED <<convVars, loadVars, estimates_data, maximum_block_height,
                   scanVars, resultVars>>

\* blocks_data = read_and_process_file(blocks_file_path, read_blocks) if blocks_file_path else []
ReadBlocks ==
    /\ pc = "read_blocks"
    /\ LET r == load_blocks(blocks_src) IN
        /\ out' = out \o r.printed
        /\ IF r.exc = NoExc
           THEN /\ data' = <<data[1], r.val>>
                /\ pc' = "loaded"
                /\ exc' = exc
           ELSE /\ pc' = "fatal"
                /\ exc' = Raised("read_blocks", r.exc)
                /\ data' = data
    /\ UNCHANGED <<convVars, loadVars, estimates_data, maximum_block_height,
                   scanVars, resultVars>>

NextLoad == ReadFees \/ ReadBlocks

SpecLoad == InitLoad /\ [][NextLoad]_vars

----------------------------------------------------------------------------
(* Spec: get_summary(data) *)

MaxEstimates == 2
MaxTrimLen == 3
MaxTotal == 12

Estimate(ct, h, cons, econ) ==
    [conf_target |-> ct, block_height |-> h,
     conservative_fee_rate |-> cons, economic_fee_rate |-> econ]

Block(h, p5, p50) == [conf_height |-> h, p_5 |-> p5, p_50 |-> p50]

\* Classification inputs: estimates made at height 100 with targets 1..3, blocks
\* at 101 and 102 (inside some windows), at 100 and 103 (outside every window),
\* and a tip block high enough for the estimates to pass the sanity check.
ScanEstimates ==
    {Estimate(ct, 100, fr[1], fr[2]) : ct \in 1..3, fr \in {<<10, 25>>, <<25, 10>>, <<3, 10>>}}

ScanStats == {<<5, 20>>, <<12, 20>>, <<5, 8>>}
TipBlock == Block(1108, 1, 1)

ScanBlockMaps ==
    {[h \in H \cup {1108} |->
        IF h = 1108 THEN TipBlock
        ELSE IF h = 101 THEN Block(h, s1[1], s1[2])
        ELSE IF h = 102 THEN Block(h, s2[1], s2[2])
        ELSE Block(h, 50, 1)] :
     H \in SUBSET {100, 101, 102, 103}, s1 \in ScanStats, s2 \in ScanStats}

ScanBlockData ==
    {DictOf(f) : f \in ScanBlockMaps}
    \cup {EmptyDict, PyList(<<>>), DictOf([h \in {101} |-> Block(101, 5, 20)])}

\* Trimming inputs: estimates around the cut-off of a tip at 2000 or 2001, in any order.
TrimEstimates == {Estimate(1, h, 10, 10) : h \in 991..994}
TrimBlockData == {DictOf([h \in {tip} |-> Block(tip, 1, 1)]) : tip \in {2000, 2001}}

\* Percentage inputs: runs of three kinds of estimate, up to MaxTotal in all.
TotalEstimates ==
    {Repeat(Estimate(2, 100, 10, 25), k[1]) \o Repeat(Estimate(3, 100, 10, 10), k[2])
        \o Repeat(Estimate(1, 100, 25, 10), k[3]) :
     k \in {c \in (0..MaxTotal) \X (0..MaxTotal) \X (0..MaxTotal) : c[1] + c[2] + c[3] <= MaxTotal}}
TotalBlockData ==
    {DictOf([h \in {101, 102, 1108} |->
        IF h = 101 THEN Block(101, 5, 20) ELSE IF h = 102 THEN Block(102, 12, 20) ELSE TipBlock])}

Inputs ==
    (SeqsUpTo(ScanEstimates, MaxEstimates) \X ScanBlockData)
    \cup (SeqsUpTo(TrimEstimates, MaxTrimLen) \X TrimBlockData)
    \cup (TotalEstimates \X TotalBlockData)

Init ==
    /\ pc = "get_summary" /\ exc = NoError /\ out = <<>>
    /\ \E in \in Inputs : data = <<PyList(in[1]), in[2]>>
    /\ IdleConv /\ IdleLoad /\ IdleSummary

maximum_or_zero(block_data) ==
    IF block_data.type # "dict" THEN [exc |-> "AttributeError", val |-> 0]
    ELSE IF DOMAIN block_data.items = {} THEN [exc |-> NoExc, val |-> 0]
    ELSE [exc |-> NoExc, val |-> MaxOf(DOMAIN block_data.items)]

\* max(list(block_data.keys())): a list has no keys(), max() of nothing raises
maximum(block_data) ==
    IF block_data.type # "dict" THEN [exc |-> "AttributeError", val |-> 0]
    ELSE IF DOMAIN block_data.items = {} THEN [exc |-> "ValueError", val |-> 0]
    ELSE [exc |-> NoExc, val |-> MaxOf(DOMAIN block_data.items)]

Fatal(at, type) ==
    /\ pc' = "fatal"
    /\ exc' = Raised(at, type)

\* estimates_data = data[0]; block_data = data[1]; maximum_block_height = max(...)
Maximum ==
    /\ pc = "get_summary"
    /\ estimates_data' = data[1].items
    /\ LET m == maximum(data[2]) IN
        IF m.exc = NoExc
        THEN /\ maximum_block_height' = m.val
             /\ pc' = "sanity_check"
             /\ exc' = exc
        ELSE /\ Fatal("maximum_block_height", m.exc)
             /\ maximum_block_height' = maximum_block_height
    /\ UNCHANGED <<out, convVars, loadVars, data, scanVars, resultVars>>

\* estimates_data = sanity_check_data(estimates_data, maximum_block_height)
SanityCheck ==
    /\ pc = "sanity_check"
    /\ estimates_data' = sanity_check_data(estimates_data, maximum_block_height)
    /\ pc' = "header"
    /\ UNCHANGED <<exc, out, convVars, loadVars, data, maximum_block_height,
                   scanVars, resultVars>>

\* total, start_block, end_block and the two header lines; then the entry of
\* calculate_percentages (both result dicts empty)
Header ==
    /\ pc = "header"
    /\ IF Len(estimates_data) = 0
       THEN /\ Fatal("start_block", "IndexError")
            /\ UNCHANGED <<out, idx>>
       ELSE /\ out' = out \o <<<<"Total", Len(estimates_data),
                                 estimates_data[1].block_height - 1,
                                 estimates_data[Len(estimates_data)].block_height - 1>>,
                               <<"separator">>>>
            /\ idx' = 1
            /\ pc' = "for"
            /\ exc' = exc
    /\ UNCHANGED <<convVars, loadVars, data, estimates_data, maximum_block_height,
                   curr_height, max_height, cons_res, econs_res, visited, resultVars>>

\* top of the for loop: flags cleared, window bounds, buckets created on first use
BeginEstimate ==
    /\ pc = "for"
    /\ idx <= Len(estimates_data)
    /\ LET estimate == estimates_data[idx] IN
        /\ cons_res' = NoFlags
        /\ econs_res' = NoFlags
        /\ max_height' = WindowEnd(estimate)
        /\ curr_height' = estimate.block_height + 1
        /\ cons_result' = EnsureBucket(cons_result, estimate.conf_target)
        /\ econs_result' = EnsureBucket(econs_result, estimate.conf_target)
    /\ visited' = {}
    /\ pc' = "while"
    /\ UNCHANGED <<exc, out, convVars, loadVars, data, estimates_data,
                   maximum_block_height, idx>>

\* "if curr_height not in blocks: curr_height += 1; continue"
ScanSkip ==
    /\ pc = "while"
    /\ ScanContinues(curr_height, max_height)
    /\ curr_height \notin DOMAIN data[2].items
    /\ curr_height' = curr_height + 1
    /\ UNCHANGED <<pc, exc, out, convVars, loadVars, data, estimates_data,
                   maximum_block_height, idx, max_height, cons_res, econs_res,
                   visited, resultVars>>

\* the comparisons against blocks[curr_height], then curr_height += 1
ScanVisit ==
    /\ pc = "while"
    /\ ScanContinues(curr_height, max_height)
    /\ curr_height \in DOMAIN data[2].items
    /\ LET block == data[2].items[curr_height]
           estimate == estimates_data[idx]
       IN  /\ cons_res' = VisitFlags(cons_res, estimate.conservative_fee_rate, block)
           /\ econs_res' = VisitFlags(econs_res, estimate.economic_fee_rate, block)
    /\ visited' = visited \cup {curr_height}
    /\ curr_height' = curr_height + 1
    /\ UNCHANGED <<pc, exc, out, convVars, loadVars, data, estimates_data,
                   maximum_block_height, idx, max_height, resultVars>>

\* the while loop has ended: update_results for both modes, next estimate
UpdateResults ==
    /\ pc = "while"
    /\ ~ScanContinues(curr_height, max_height)
    /\ cons_result' = update_results(cons_res, estimates_data[idx].conf_target, cons_result)
    /\ econs_result' = update_results(econs_res, estimates_data[idx].conf_target, econs_result)
    /\ idx' = idx + 1
    /\ pc' = "for"
    /\ UNCHANGED <<exc, out, convVars, loadVars, data, estimates_data,
                   maximum_block_height, curr_height, max_height, cons_res,
                   econs_res, visited>>

\* the for loop has ended: total and calculate_percentage on both result dicts
CalculatePercentages ==
    /\ pc = "for"
    /\ idx > Len(estimates_data)
    /\ cons_result' = calculate_percentage(cons_result, Total(estimates_data))
    /\ econs_result' = calculate_percentage(econs_result, Total(estimates_data))
    /\ pc' = "print"
    /\ UNCHANGED <<exc, out, convVars, loadVars, data, estimates_data,
                   maximum_block_height, scanVars>>

\* print_summary(cons_result, "conservative"); print_summary(econs_result, "economic")
PrintSummary ==
    /\ pc = "print"
    /\ out' = out \o print_summary(cons_result, "conservative")
                  \o print_summary(econs_result, "economic")
    /\ pc' = "done"
    /\ UNCHANGED <<exc, convVars, loadVars, data, estimates_data,
                   maximum_block_height, scanVars, resultVars>>

Next ==
    \/ Maximum
    \/ SanityCheck
    \/ Header
    \/ BeginEstimate
    \/ ScanSkip
    \/ ScanVisit
    \/ UpdateResults
    \/ CalculatePercentages
    \/ PrintSummary

Spec == Init /\ [][Next]_vars

----------------------------------------------------------------------------
(* Properties *)

\* the step that ends the scan of one estimate and counts it
UpdateStep == pc = "while" /\ pc' = "for"

\* the state right after the estimate at index idx - 1 has been counted
Counted == pc = "for" /\ idx > 1

\* result dict new is result dict old with counter key of bucket target one higher
OnlyCounterRaised(old, new, target, key) ==
    /\ new.keys = old.keys
    /\ DOMAIN new.items = DOMAIN old.items
    /\ \A u \in DOMAIN old.items : \A k \in DOMAIN old.items[u] :
          new.items[u][k] = old.items[u][k] + (IF u = target /\ k = key THEN 1 ELSE 0)

\* the category the priority rule gives a fee rate, from the blocks compared
PriorityKey(fee_rate, heights) ==
    IF \E h \in heights : fee_rate > data[2].items[h].p_50 THEN "overpaid"
    ELSE IF heights # {} THEN "within the range"
    ELSE "underpaid"

\* C1: counting an estimate raises, in each mode, exactly one counter of the
\* bucket of its conf_target by one and leaves every other counter alone; the
\* counter is overpaid if the fee rate exceeded p_50 at a compared height, else
\* within the range if any height was compared, else underpaid (the underpaid
\* flag plays no part).
C1_OneCounterByPriority ==
    [][UpdateStep =>
        LET estimate == estimates_data[idx] IN
        /\ estimate.conf_target \in DOMAIN cons_result.items
        /\ estimate.conf_target \in DOMAIN econs_result.items
        /\ OnlyCounterRaised(cons_result, cons_result', estimate.conf_target,
                             PriorityKey(estimate.conservative_fee_rate, visited))
        /\ OnlyCounterRaised(econs_result, econs_result', estimate.conf_target,
                             PriorityKey(estimate.economic_fee_rate, visited))]_vars

\* C1 witness: the first estimate had its underpaid flag and its within-range flag
\* set in conservative mode and was counted within the range, while economic mode
\* counted it overpaid.
C1_Witness ==
    /\ pc = "for" /\ idx = 2
    /\ cons_res = <<TRUE, FALSE, TRUE>>
    /\ cons_result.items[estimates_data[1].conf_target]["within the range"] = 1
    /\ econs_result.items[estimates_data[1].conf_target]["overpaid"] = 1

\* heights of the window [block_height + 1, block_height + conf_target) that have a block
WindowBlocks(estimate) ==
    {h \in (estimate.block_height + 1)..(estimate.block_height + estimate.conf_target - 1) :
        h \in DOMAIN data[2].items}

FlagsOver(heights, fee_rate) ==
    <<\E h \in heights : fee_rate < data[2].items[h].p_5,
      \E h \in heights : fee_rate > data[2].items[h].p_50,
      \E h \in heights : fee_rate <= data[2].items[h].p_50>>

\* C2: the scan of an estimate compares exactly the blocks present at heights
\* block_height + 1 <= h < block_height + conf_target: missing heights are passed
\* over without an error and without ending the scan, and the flags depend on
\* the blocks of that window alone.
C2_WindowOnly ==
    /\ pc = "while" =>
          /\ visited \subseteq WindowBlocks(estimates_data[idx])
          /\ cons_res = FlagsOver(visited, estimates_data[idx].conservative_fee_rate)
          /\ econs_res = FlagsOver(visited, estimates_data[idx].economic_fee_rate)
    /\ Counted =>
          /\ exc = NoError
          /\ visited = WindowBlocks(estimates_data[idx - 1])
          /\ cons_res = FlagsOver(WindowBlocks(estimates_data[idx - 1]),
                                  estimates_data[idx - 1].conservative_fee_rate)
          /\ econs_res = FlagsOver(WindowBlocks(estimates_data[idx - 1]),
                                   estimates_data[idx - 1].economic_fee_rate)

\* C2 witness: an estimate with conf_target 3 at height 100 was counted with no
\* block at 101 and blocks at 100, 102 and 103: only 102 was compared.
C2_Witness ==
    /\ Counted
    /\ estimates_data[idx - 1].conf_target = 3
    /\ DOMAIN data[2].items = {100, 102, 103, 1108}
    /\ visited = {102}

C3Case ==
    /\ pc = "for" /\ idx = 2
    /\ estimates_data[1].conf_target = 2
    /\ estimates_data[1].block_height = 100
    /\ estimates_data[1].conservative_fee_rate = 10
    /\ data[2].type = "dict"
    /\ {101, 102} \subseteq DOMAIN data[2].items
    /\ data[2].items[101] = Block(101, 5, 20)
    /\ data[2].items[102] = Block(102, 12, 20)

CountedOnlyWithin(result_dict, target) ==
    /\ result_dict.items[target]["within the range"] = 1
    /\ result_dict.items[target]["overpaid"] = 0
    /\ result_dict.items[target]["underpaid"] = 0

\* C3 as claimed: for conf_target 2, block_height 100, conservative fee rate 10 and
\* blocks 101 (p_5 5, p_50 20) and 102 (p_5 12, p_50 20), the scan sets the
\* within-range flag at 101 and the underpaid flag at 102, never the overpaid
\* flag, and the estimate is counted within the range.
C3_AsClaimed ==
    C3Case => /\ cons_res = <<TRUE, FALSE, TRUE>>
              /\ 102 \in visited
              /\ CountedOnlyWithin(cons_result, 2)

\* C3 amended: in that case the scan compares height 101 alone (102 is the
\* exclusive end of the window), sets the within-range flag there, sets neither
\* the underpaid nor the overpaid flag, and the estimate is counted within the range.
C3_OnlyHeight101 ==
    C3Case => /\ cons_res = <<FALSE, FALSE, TRUE>>
              /\ visited = {101}
              /\ CountedOnlyWithin(cons_result, 2)

\* C3 witness: the case of the claim has been counted.
C3_Witness == C3Case /\ cons_result.items[2]["within the range"] = 1

\* the sanity check has run
Trimmed ==
    \/ pc \in {"header", "for", "while", "print", "done"}
    \/ pc = "fatal" /\ exc.at = "start_block"

Kept(e) == e.block_height <= maximum_block_height - 1008

NonDecreasing(estimates) ==
    \A i \in 1..(Len(estimates) - 1) : estimates[i].block_height <= estimates[i + 1].block_height

\* C4 as claimed: for every sequence of estimates the sanity check removes every
\* estimate with block_height > max - 1008 and keeps every other, in order.
C4_AsClaimed ==
    Trimmed => estimates_data = SelectSeq(data[1].items, Kept)

\* C4 amended: the sanity check removes exactly the longest tail of estimates
\* that all have block_height > max - 1008 and keeps the rest in order; for a
\* sequence in non-decreasing block_height order that removes every estimate with
\* block_height > max - 1008 and keeps every estimate with block_height <=
\* max - 1008 (max 2000: 992 is kept, 993 removed).
C4_TailTrimmed ==
    Trimmed =>
        LET loaded == data[1].items
            n == Len(estimates_data)
        IN  /\ n <= Len(loaded)
            /\ estimates_data = SubSeq(loaded, 1, n)
            /\ \A i \in (n + 1)..Len(loaded) : ~Kept(loaded[i])
            /\ n > 0 => Kept(loaded[n])
            /\ NonDecreasing(loaded) => estimates_data = SelectSeq(loaded, Kept)

\* C4 witness: with a tip at 2000, estimates at 992 and 993 were trimmed to the one at 992.
C4_Witness ==
    /\ Trimmed
    /\ maximum_block_height = 2000
    /\ Len(data[1].items) = 2
    /\ data[1].items[1].block_height = 992
    /\ data[1].items[2].block_height = 993
    /\ estimates_data = <<data[1].items[1]>>

\* the fees load has run (to its return or to an uncaught exception)
FeesLoadRan ==
    \/ pc \in {"read_blocks", "loaded"}
    \/ pc = "fatal" /\ exc.at \in {"read_fees", "read_blocks"}

\* the blocks load has run
BlocksLoadRan ==
    \/ pc = "loaded"
    \/ pc = "fatal" /\ exc.at = "read_blocks"

Malformed(record, fields) == FirstExc(record, fields) # NoExc

Range(s) == {s[i] : i \in DOMAIN s}

\* C5 as claimed: a fees source with a malformed record (a field missing or not
\* parseable as a number) loads as an empty list, with a diagnostic printed, and
\* the load returns instead of ending the run.
C5_AsClaimed ==
    (/\ FeesLoadRan
     /\ fees_src.kind = "json"
     /\ \E i \in DOMAIN fees_src.records : Malformed(fees_src.records[i], FeeFields))
    => /\ exc.at # "read_fees"
       /\ data[1] = PyList(<<>>)
       /\ \E line \in Range(out) : line[1] = "Error reading or processing file"

\* C6 as claimed: the blocks load skips every malformed record (a field missing
\* or not parseable as a number) and goes on: the mapping has exactly one entry
\* per distinct height of the well-formed records, keyed by that height.
C6_AsClaimed ==
    (BlocksLoadRan /\ blocks_src.kind = "json")
    => LET good == {i \in DOMAIN blocks_src.records :
                        ~Malformed(blocks_src.records[i], BlockFields)}
       IN  /\ exc = NoError
           /\ data[2].type = "dict"
           /\ DOMAIN data[2].items = {blocks_src.records[i]["block_height"].v : i \in good}
           /\ \A h \in DOMAIN data[2].items : data[2].items[h].conf_height = h

\* the percentages have been computed
Computed == pc \in {"print", "done"}

RECURSIVE SumOver(_, _)
SumOver(f, S) ==
    IF S = {} THEN 0 ELSE LET x == CHOOSE y \in S : TRUE IN f[x] + SumOver(f, S \ {x})

\* N times the sum of all percentages of one mode (each N * percentage is whole)
ScaledPercentSum(result_dict, n) ==
    LET cells == (DOMAIN result_dict.items) \X {1, 2, 3}
        scaled == [c \in cells |->
                     (result_dict.items[c[1]][PercKey(Categories[c[2]])][1] * n)
                        \div result_dict.items[c[1]][PercKey(Categories[c[2]])][2]]
    IN  SumOver(scaled, cells)

PercentagesOf(result_dict, mode, n) ==
    /\ \A target \in DOMAIN result_dict.items : \A i \in 1..3 :
          LET count == result_dict.items[target][Categories[i]]
              perc == result_dict.items[target][PercKey(Categories[i])]
          IN  /\ perc[2] # 0
              /\ perc[1] * n = 1200 * count * perc[2]
              /\ (n = 12 /\ count = 6) => Format2f(perc) = 60000
              /\ pc = "done" =>
                    <<"estimates", count, Categories[i], Format2f(perc), mode>> \in Range(out)
    /\ ScaledPercentSum(result_dict, n) = 1200 * n

\* C7: after N >= 1 estimates, every percentage of every bucket, category and
\* mode is (count / (N / 12)) * 100, that is percentage * N = 1200 * count,
\* whatever the bucket's size and the number of buckets; a count of 6 with
\* N = 12 is printed as 600.00, and the percentages of one mode sum to 1200.
C7_FixedDivisor ==
    Computed =>
        /\ Len(estimates_data) >= 1
        /\ PercentagesOf(cons_result, "conservative", Len(estimates_data))
        /\ PercentagesOf(econs_result, "economic", Len(estimates_data))

\* C7 witness: 12 estimates, 6 of them within the range in the bucket of
\* conf_target 2 in conservative mode, reported as 600.00%.
C7_Witness ==
    /\ pc = "done"
    /\ Len(estimates_data) = 12
    /\ 2 \in DOMAIN cons_result.items
    /\ cons_result.items[2]["within the range"] = 6
    /\ <<"estimates", 6, "within the range", 60000, "conservative">> \in Range(out)

\* C8 as claimed: the converter returns floor(rate / 1000) for every integer,
\* negative ones included.
C8_AsClaimed ==
    pc = "converted" =>
        /\ 1000 * rate_out <= rate_in
        /\ rate_in < 1000 * (rate_out + 1)

\* C8 amended: the converter returns rate / 1000 rounded toward zero and raises
\* nothing: the floor for an input >= 0 (5000 -> 5, 1999 -> 1, 0 -> 0), the
\* ceiling for an input < 0, so that -1000 < r < 0 gives 0.
C8_TowardZero ==
    pc = "converted" =>
        /\ exc = NoError
        /\ rate_in >= 0 => 1000 * rate_out <= rate_in /\ rate_in < 1000 * (rate_out + 1)
        /\ rate_in < 0 => 1000 * (rate_out - 1) < rate_in /\ rate_in <= 1000 * rate_out
        /\ rate_in = 5000 => rate_out = 5
        /\ rate_in = 1999 => rate_out = 1
        /\ rate_in = 0 => rate_out = 0
        /\ (-1000 < rate_in /\ rate_in < 0) => rate_out = 0

\* C8 witness: -500 has been converted to 0.
C8_Witness == pc = "converted" /\ rate_in = -500 /\ rate_out = 0

BlocksEmpty == data[2].type # "dict" \/ DOMAIN data[2].items = {}

\* C9: get_summary ends in a fatal error with nothing printed (1) when the
\* blocks are empty (no record, or the [] of an absent or unreadable source),
\* failing at the maximum block height before any trimming, and (2) when no
\* estimate is left after trimming, failing at the first estimate before
\* classification starts.
C9_FatalPreconditions ==
    /\ (BlocksEmpty /\ pc # "get_summary") =>
          /\ pc = "fatal"
          /\ exc.at = "maximum_block_height"
          /\ exc.type \in {"AttributeError", "ValueError"}
          /\ estimates_data = data[1].items
          /\ out = <<>>
    /\ (Trimmed /\ estimates_data = <<>> /\ pc # "header") =>
          /\ pc = "fatal"
          /\ exc = Raised("start_block", "IndexError")
          /\ idx = 0
          /\ cons_result = EmptyDict /\ econs_result = EmptyDict
          /\ out = <<>>
    /\ pc = "fatal" => out = <<>>
    /\ pc = "done" => ~BlocksEmpty /\ estimates_data # <<>>

\* C9 witness: estimates were loaded, the sanity check removed them all, and
\* the run ended with the IndexError of the header.
C9_Witness ==
    /\ pc = "fatal"
    /\ exc = Raised("start_block", "IndexError")
    /\ data[1].items # <<>>
    /\ estimates_data = <<>>

\* C10: an estimate is counted underpaid in a mode exactly when no height of
\* its window [block_height + 1, block_height + conf_target) has a block, so
\* whatever its fee rates and the p_5 values and alike in both modes; an
\* estimate with conf_target 1 is always counted underpaid in both modes.
C10_UnderpaidIffEmptyWindow ==
    [][UpdateStep =>
        LET estimate == estimates_data[idx]
            target == estimate.conf_target
            consUnder == cons_result'.items[target]["underpaid"]
                            = cons_result.items[target]["underpaid"] + 1
            econsUnder == econs_result'.items[target]["underpaid"]
                            = econs_result.items[target]["underpaid"] + 1
        IN  /\ consUnder <=> WindowBlocks(estimate) = {}
            /\ econsUnder <=> WindowBlocks(estimate) = {}
            /\ target = 1 => consUnder /\ econsUnder]_vars

\* C10 witness: an estimate with conf_target 1 at height 100 was counted
\* underpaid in both modes although blocks exist at 100 and 101.
C10_Witness ==
    /\ pc = "for" /\ idx = 2
    /\ estimates_data[1].conf_target = 1
    /\ {100, 101} \subseteq DOMAIN data[2].items
    /\ cons_result.items[1]["underpaid"] = 1
    /\ econs_result.items[1]["underpaid"] = 1

====
